---- MODULE Spec2Model ----
(***************************************************************************)
(* Model of the adaptive-card service: the card schema of llm/models.py    *)
(* (pydantic v2 models, validated in the library's default lax mode with   *)
(* extra = "forbid"), generate_card of llm/llm_client.py and the           *)
(* /generate-card endpoint of llm/main.py.                                 *)
(*                                                                         *)
(* Python values are tagged records:                                       *)
(*   [t |-> "str", s]   [t |-> "int", n]   [t |-> "bool", b]               *)
(*   [t |-> "float", c, x]  c is "fin" (x in tenths), "inf" or "nan"       *)
(*   [t |-> "null"]  (None)                                                *)
(*   [t |-> "list", a]  a sequence of values                               *)
(*   [t |-> "dict", o]  o a function from keys to values                   *)
(*   [t |-> "model", cls, o]  a validated pydantic model instance          *)
(***************************************************************************)
EXTENDS Integers, Sequences, FiniteSets, TLC

VARIABLES pc, upstream, raw, card, exc, response

vars == <<pc, upstream, raw, card, exc, response>>

-----------------------------------------------------------------------------
(* Bounds of the explored inputs. *)
MaxCols == 2
MaxRows == 2
MaxSeries == 2
MaxDepth == 4

-----------------------------------------------------------------------------
(* Python values *)
JS(s) == [t |-> "str", s |-> s]
JInt(n) == [t |-> "int", n |-> n]
JBool(b) == [t |-> "bool", b |-> b]
JFloat(c, x) == [t |-> "float", c |-> c, x |-> x]
JNull == [t |-> "null"]
JList(a) == [t |-> "list", a |-> a]
JDict(o) == [t |-> "dict", o |-> o]
Model(cls, o) == [t |-> "model", cls |-> cls, o |-> o]

Ok(v) == [ok |-> TRUE, v |-> v]
Err == [ok |-> FALSE, v |-> JNull]

IsDict(x) == x.t = "dict"
Has(x, k) == k \in DOMAIN x.o

-----------------------------------------------------------------------------
(* Field validators: the annotations of llm/models.py under pydantic's    *)
(* default (lax) mode.                                                     *)

\* str: only a str is a str (numbers are not coerced to str).
ValidateStr(x) == IF x.t = "str" THEN Ok(x) ELSE Err

\* Literal[...]: the exact string, one of the allowed ones.
ValidateLiteral(x, allowed) ==
    IF x.t = "str" /\ x.s \in allowed THEN Ok(x) ELSE Err

\* float(s) for the strings of the explored inputs.
StrToFloat(s) ==
    CASE s = "10" -> Ok(JFloat("fin", 100))
      [] s = "2.5" -> Ok(JFloat("fin", 25))
      [] OTHER -> Err

\* float: lax mode takes a float as it is, converts an int and a bool, and
\* parses a str; None, lists and dicts are refused.
ValidateFloat(x) ==
    CASE x.t = "float" -> Ok(x)
      [] x.t = "int" -> Ok(JFloat("fin", 10 * x.n))
      [] x.t = "bool" -> Ok(JFloat("fin", IF x.b THEN 10 ELSE 0))
      [] x.t = "str" -> StrToFloat(x.s)
      [] OTHER -> Err

\* Optional[float] = None
ValidateOptionalFloat(x) == IF x.t = "null" THEN Ok(JNull) ELSE ValidateFloat(x)

\* A field declared Optional[float] = None: absent gives the default.
OptionalFloatField(x, k) ==
    IF Has(x, k) THEN ValidateOptionalFloat(x.o[k]) ELSE Ok(JNull)

\* List[str]
ValidateStrList(x) ==
    IF x.t = "list" /\ \A i \in 1..Len(x.a) : ValidateStr(x.a[i]).ok
    THEN Ok(x) ELSE Err

\* List[List[str]]
ValidateStrListList(x) ==
    IF x.t = "list" /\ \A i \in 1..Len(x.a) : ValidateStrList(x.a[i]).ok
    THEN Ok(x) ELSE Err

\* A list field: every item validated in order, the first failure failing
\* the list.
ListOf(rs) ==
    IF \A i \in 1..Len(rs) : rs[i].ok
    THEN Ok(JList([i \in 1..Len(rs) |-> rs[i].v]))
    ELSE Err

\* List[float]
ValidateFloatList(x) ==
    IF x.t = "list"
    THEN ListOf([i \in 1..Len(x.a) |-> ValidateFloat(x.a[i])])
    ELSE Err

\* Faulty variant: fields outside the declared ones are ignored.
Shape_allowExtra(x, required, declared) ==
    /\ IsDict(x)
    /\ required \subseteq DOMAIN x.o

\* A model is built from a dict that has every required field and, under
\* extra = "forbid", no field outside the declared ones.
Shape(x, required, declared) ==
    /\ IsDict(x)
    /\ required \subseteq DOMAIN x.o
    /\ DOMAIN x.o \subseteq declared

-----------------------------------------------------------------------------
(* Leaf nodes *)

TextKinds == {"title", "subtitle", "text"}

TextCls(kind) ==
    CASE kind = "title" -> "TitleNode"
      [] kind = "subtitle" -> "SubtitleNode"
      [] kind = "text" -> "TextNode"

\* TitleNode, SubtitleNode, TextNode: kind: Literal[kind]; text: str
ValidateTextNode(x, kind) ==
    IF /\ Shape(x, {"kind", "text"}, {"kind", "text"})
       /\ ValidateLiteral(x.o.kind, {kind}).ok
       /\ ValidateStr(x.o.text).ok
    THEN Ok(Model(TextCls(kind), [kind |-> x.o.kind, text |-> x.o.text]))
    ELSE Err

\* BulletsNode
ValidateBulletsNode(x) ==
    IF /\ Shape(x, {"kind", "items"}, {"kind", "items"})
       /\ ValidateLiteral(x.o.kind, {"bullets"}).ok
       /\ ValidateStrList(x.o.items).ok
    THEN Ok(Model("BulletsNode", [kind |-> x.o.kind, items |-> x.o.items]))
    ELSE Err

\* TableNode: columns: List[str]; rows: List[List[str]]; no validator
\* relates the two.
ValidateTableNode(x) ==
    IF /\ Shape(x, {"kind", "columns", "rows"}, {"kind", "columns", "rows"})
       /\ ValidateLiteral(x.o.kind, {"table"}).ok
       /\ ValidateStrList(x.o.columns).ok
       /\ ValidateStrListList(x.o.rows).ok
    THEN Ok(Model("TableNode",
                  [kind |-> x.o.kind, columns |-> x.o.columns, rows |-> x.o.rows]))
    ELSE Err

\* ChartSeries: name: str; values: List[float]
BuildChartSeries(x, values) ==
    IF values.ok
    THEN Ok(Model("ChartSeries", [name |-> x.o.name, values |-> values.v]))
    ELSE Err

ValidateChartSeries(x) ==
    IF /\ Shape(x, {"name", "values"}, {"name", "values"})
       /\ ValidateStr(x.o.name).ok
    THEN BuildChartSeries(x, ValidateFloatList(x.o.values))
    ELSE Err

\* List[ChartSeries]
ValidateSeriesList(x) ==
    IF x.t = "list"
    THEN ListOf([i \in 1..Len(x.a) |-> ValidateChartSeries(x.a[i])])
    ELSE Err

\* ChartNode.validate_series_lengths, on the validated fields.
\* Faulty variant: the empty-categories rule is left out.
validate_series_lengths_noEmptyRule(categories, series_list) ==
    \A i \in 1..Len(series_list) :
        Len(series_list[i].o.values.a) = Len(categories)

validate_series_lengths(categories, series_list) ==
    /\ ~(Len(categories) = 0 /\ Len(series_list) # 0)
    /\ \A i \in 1..Len(series_list) :
           Len(series_list[i].o.values.a) = Len(categories)

\* ChartNode: the fields, then the model validator.
BuildChartNode(x, series) ==
    IF series.ok /\ validate_series_lengths(x.o.categories.a, series.v.a)
    THEN Ok(Model("ChartNode",
                  [kind |-> x.o.kind, chartType |-> x.o.chartType,
                   categories |-> x.o.categories, series |-> series.v]))
    ELSE Err

ValidateChartNode(x) ==
    IF /\ Shape(x, {"kind", "chartType", "categories", "series"},
                   {"kind", "chartType", "categories", "series"})
       /\ ValidateLiteral(x.o.kind, {"chart"}).ok
       /\ ValidateLiteral(x.o.chartType, {"bar", "line"}).ok
       /\ ValidateStrList(x.o.categories).ok
    THEN BuildChartNode(x, ValidateSeriesList(x.o.series))
    ELSE Err

-----------------------------------------------------------------------------
(* The recursive part of the schema *)

RECURSIVE ValidateCardNode(_), ValidateNode(_), ValidateNonLayoutNode(_),
          ValidatePanel(_), ValidateResizableLayoutNode(_)

\* The kinds of Node.
NodeKinds ==
    {"card", "title", "subtitle", "text", "bullets", "table", "chart",
     "resizableLayout"}

\* Faulty variant: panels take every kind of node.
NonLayoutKinds_withLayout == NodeKinds

\* The kinds of NonLayoutNode.
NonLayoutKinds ==
    {"title", "subtitle", "text", "bullets", "table", "chart", "card"}

\* The model a tag selects.
ValidateVariant(x, kind) ==
    CASE kind = "card" -> ValidateCardNode(x)
      [] kind \in TextKinds -> ValidateTextNode(x, kind)
      [] kind = "bullets" -> ValidateBulletsNode(x)
      [] kind = "table" -> ValidateTableNode(x)
      [] kind = "chart" -> ValidateChartNode(x)
      [] kind = "resizableLayout" -> ValidateResizableLayoutNode(x)

\* Faulty variant: an object without a known tag is read as a text node
\* when it has the fields of one.
ValidateTagged_firstMatch(x, kinds) ==
    IF IsDict(x) /\ Has(x, "kind") /\ x.o.kind.t = "str" /\ x.o.kind.s \in kinds
    THEN ValidateVariant(x, x.o.kind.s)
    ELSE IF IsDict(x) /\ Has(x, "text") /\ DOMAIN x.o \subseteq {"kind", "text"}
              /\ ValidateStr(x.o.text).ok
         THEN Ok(Model("TextNode", [kind |-> JS("text"), text |-> x.o.text]))
         ELSE Err

\* Field(discriminator="kind"): the value is a dict, carries the tag, and the
\* tag is one of the union's; the tagged model then validates it.
ValidateTagged(x, kinds) ==
    IF IsDict(x) /\ Has(x, "kind") /\ x.o.kind.t = "str" /\ x.o.kind.s \in kinds
    THEN ValidateVariant(x, x.o.kind.s)
    ELSE Err

\* Node
ValidateNode(x) == ValidateTagged(x, NodeKinds)

\* Faulty variant: the exclusion is carried into the cards below a panel.
ValidateNonLayoutNode_transitive(x) ==
    IF IsDict(x) /\ Has(x, "kind") /\ x.o.kind = JS("card")
    THEN IF /\ Shape(x, {"kind", "children"}, {"kind", "children"})
            /\ x.o.children.t = "list"
            /\ \A i \in 1..Len(x.o.children.a) :
                   ValidateNonLayoutNode(x.o.children.a[i]).ok
         THEN ValidateCardNode(x)
         ELSE Err
    ELSE ValidateTagged(x, NonLayoutKinds)

\* NonLayoutNode
ValidateNonLayoutNode(x) == ValidateTagged(x, NonLayoutKinds)

\* List["Node"]
ValidateNodeList(x) ==
    IF x.t = "list"
    THEN ListOf([i \in 1..Len(x.a) |-> ValidateNode(x.a[i])])
    ELSE Err

\* List["NonLayoutNode"]
ValidateNonLayoutNodeList(x) ==
    IF x.t = "list"
    THEN ListOf([i \in 1..Len(x.a) |-> ValidateNonLayoutNode(x.a[i])])
    ELSE Err

\* Panel
BuildPanel(defaultSize, minSize, children) ==
    IF defaultSize.ok /\ minSize.ok /\ children.ok
    THEN Ok(Model("Panel",
                  [defaultSize |-> defaultSize.v, minSize |-> minSize.v,
                   children |-> children.v]))
    ELSE Err

ValidatePanel(x) ==
    IF Shape(x, {"children"}, {"defaultSize", "minSize", "children"})
    THEN BuildPanel(OptionalFloatField(x, "defaultSize"),
                    OptionalFloatField(x, "minSize"),
                    ValidateNonLayoutNodeList(x.o.children))
    ELSE Err

\* List[Panel]
ValidatePanelList(x) ==
    IF x.t = "list"
    THEN ListOf([i \in 1..Len(x.a) |-> ValidatePanel(x.a[i])])
    ELSE Err

\* ResizableLayoutNode
BuildResizableLayoutNode(x, panels) ==
    IF panels.ok
    THEN Ok(Model("ResizableLayoutNode",
                  [kind |-> x.o.kind, direction |-> x.o.direction,
                   panels |-> panels.v]))
    ELSE Err

ValidateResizableLayoutNode(x) ==
    IF /\ Shape(x, {"kind", "direction", "panels"}, {"kind", "direction", "panels"})
       /\ ValidateLiteral(x.o.kind, {"resizableLayout"}).ok
       /\ ValidateLiteral(x.o.direction, {"horizontal", "vertical"}).ok
    THEN BuildResizableLayoutNode(x, ValidatePanelList(x.o.panels))
    ELSE Err

\* CardNode
BuildCardNode(x, children) ==
    IF children.ok
    THEN Ok(Model("CardNode", [kind |-> x.o.kind, children |-> children.v]))
    ELSE Err

ValidateCardNode(x) ==
    IF /\ Shape(x, {"kind", "children"}, {"kind", "children"})
       /\ ValidateLiteral(x.o.kind, {"card"}).ok
    THEN BuildCardNode(x, ValidateNodeList(x.o.children))
    ELSE Err

-----------------------------------------------------------------------------
(* Serialization of a validated card as the JSON of the response body, read *)
(* back as a Python value: a model becomes an object of all its fields, a   *)
(* None field becomes null, and a float that JSON cannot write (inf, nan)   *)
(* becomes null.                                                            *)

RECURSIVE Serialize(_)

Serialize(v) ==
    CASE v.t = "model" -> JDict([k \in DOMAIN v.o |-> Serialize(v.o[k])])
      [] v.t = "list" -> JList([i \in 1..Len(v.a) |-> Serialize(v.a[i])])
      [] v.t = "float" -> IF v.c = "fin" THEN v ELSE JNull
      [] OTHER -> v

\* Whether a validated value holds a float that JSON cannot write.
RECURSIVE HasNonFinite(_)

HasNonFinite(v) ==
    CASE v.t = "model" -> \E k \in DOMAIN v.o : HasNonFinite(v.o[k])
      [] v.t = "list" -> \E i \in 1..Len(v.a) : HasNonFinite(v.a[i])
      [] v.t = "float" -> v.c # "fin"
      [] OTHER -> FALSE

-----------------------------------------------------------------------------
(* The JSON values the language model may answer with: json.loads gives any *)
(* JSON value, of any shape.                                                *)

Label(i) == IF i % 2 = 1 THEN "a" ELSE "b"
StrSeq(n) == [i \in 1..n |-> JS(Label(i))]
SeqsUpTo(S, n) == UNION {[1..k -> S] : k \in 0..n}

\* Values met where a number is expected.
Scalars ==
    {JInt(10), JFloat("fin", 25), JFloat("inf", 0), JFloat("nan", 0),
     JS("10"), JS("2.5"), JS("abc"), JNull, JBool(TRUE), JList(<<>>)}

TextNodeOf(kind, text) == JDict([kind |-> JS(kind), text |-> JS(text)])

Table(nc, lens) ==
    JDict([kind |-> JS("table"), columns |-> JList(StrSeq(nc)),
           rows |-> JList([i \in 1..Len(lens) |-> JList(StrSeq(lens[i]))])])

Series(n, val) == JDict([name |-> JS("Rev"), values |-> JList([j \in 1..n |-> val])])

Chart(ct, nc, lens, val) ==
    JDict([kind |-> JS("chart"), chartType |-> JS(ct), categories |-> JList(StrSeq(nc)),
           series |-> JList([i \in 1..Len(lens) |-> Series(lens[i], val)])])

PanelOf(children) == JDict([children |-> JList(children)])
PanelWith(k, v, children) == JDict((k :> v) @@ [children |-> JList(children)])

Layout(dir, panels) ==
    JDict([kind |-> JS("resizableLayout"), direction |-> JS(dir),
           panels |-> JList(panels)])

Card(children) == JDict([kind |-> JS("card"), children |-> JList(children)])

Extra(x, k, v) == JDict((k :> v) @@ x.o)
Without(x, k) == JDict([f \in DOMAIN x.o \ {k} |-> x.o[f]])

T1 == TextNodeOf("text", "x")

TextNodes ==
    {TextNodeOf(k, "x") : k \in TextKinds}
    \cup {Extra(TextNodeOf("title", "x"), "style", JS("bold")),
          Without(TextNodeOf("title", "x"), "text"),
          Without(TextNodeOf("text", "x"), "kind"),
          TextNodeOf("paragraph", "x"),
          JDict([kind |-> JS("paragraph")]),
          JDict([kind |-> JInt(5), text |-> JS("x")]),
          JDict([kind |-> JS("title"), text |-> JInt(10)])}

BulletNodes ==
    {JDict([kind |-> JS("bullets"), items |-> JList(StrSeq(n))]) : n \in 0..MaxCols}
    \cup {JDict([kind |-> JS("bullets"), items |-> JList(<<JS("a"), JInt(10)>>)]),
          JDict([kind |-> JS("bullets"), items |-> JS("a")])}

Tables ==
    {Table(nc, lens) : nc \in 0..MaxCols, lens \in SeqsUpTo(0..MaxCols, MaxRows)}
    \cup {Extra(Table(1, <<1>>), "caption", JS("x")),
          Without(Table(1, <<1>>), "columns"),
          JDict([kind |-> JS("table"), columns |-> JList(StrSeq(1)),
                 rows |-> JList(<<JList(<<JInt(10)>>)>>)]),
          JDict([kind |-> JS("table"), columns |-> JList(StrSeq(1)),
                 rows |-> JList(<<JS("a")>>)])}

Charts ==
    {Chart("bar", nc, lens, JInt(10)) :
        nc \in 0..MaxCols, lens \in SeqsUpTo(0..MaxCols, MaxSeries)}
    \cup {Chart(ct, 1, <<1>>, v) : ct \in {"bar", "line", "pie"}, v \in Scalars}
    \cup {Chart("line", 2, <<2>>, v) : v \in {JFloat("fin", 25), JS("10")}}
    \cup {JDict([kind |-> JS("chart"), chartType |-> JS("bar"),
                 categories |-> JList(StrSeq(1)),
                 series |-> JList(<<Extra(Series(1, JInt(10)), "color", JS("red"))>>)]),
          JDict([kind |-> JS("chart"), chartType |-> JS("bar"),
                 categories |-> JList(StrSeq(1)),
                 series |-> JList(<<Without(Series(1, JInt(10)), "name")>>)]),
          Extra(Chart("bar", 1, <<1>>, JInt(10)), "title", JS("x"))}

Layouts ==
    {Layout(d, <<PanelOf(<<T1>>)>>) : d \in {"horizontal", "vertical", "diagonal"}}
    \cup {Layout("horizontal", <<PanelWith(k, v, <<T1>>)>>) :
             k \in {"defaultSize", "minSize"}, v \in Scalars}
    \cup {Layout("vertical", <<>>),
          Layout("vertical", <<PanelOf(<<>>), PanelWith("minSize", JInt(10), <<T1>>)>>),
          Layout("vertical", <<PanelWith("size", JInt(10), <<T1>>)>>),
          Layout("vertical", <<JDict([defaultSize |-> JInt(10)])>>),
          Layout("vertical", <<PanelOf(<<T1, Layout("vertical", <<PanelOf(<<T1>>)>>)>>)>>),
          Extra(Layout("vertical", <<PanelOf(<<T1>>)>>), "gap", JInt(10)),
          Extra(Layout("vertical",
                       <<PanelOf(<<Layout("vertical", <<PanelOf(<<T1>>)>>)>>)>>),
                "gap", JInt(10))}

Cards ==
    {Card(<<>>), Card(<<T1, TextNodeOf("title", "y")>>),
     Extra(Card(<<T1>>), "style", JS("bold")),
     Without(Card(<<T1>>), "children"),
     JDict([kind |-> JS("card"), children |-> T1])}

NonObjects == {JS("x"), JInt(10), JNull, JList(<<T1>>)}

Nodes ==
    TextNodes \cup BulletNodes \cup Tables \cup Charts \cup Layouts \cup Cards
    \cup NonObjects

\* The node inside a chain of cards and panels, outermost first.
RECURSIVE Wrap(_, _)

Wrap(path, n) ==
    IF path = <<>> THEN n
    ELSE IF Head(path) = "card"
         THEN Card(<<TextNodeOf("subtitle", "s"), Wrap(Tail(path), n)>>)
         ELSE Layout("horizontal", <<PanelOf(<<Wrap(Tail(path), n), T1>>)>>)

Paths == SeqsUpTo({"card", "panel"}, MaxDepth - 1)

RawDocs == Nodes \cup {Card(<<Wrap(p, n)>>) : p \in Paths, n \in Nodes}

-----------------------------------------------------------------------------
(* The service: POST /generate-card -> generate_card -> _call_model, then   *)
(* CardNode.model_validate, then the response.                              *)

Absent == [t |-> "absent"]
NoResponse == [status |-> 0, body |-> Absent]

Init ==
    /\ pc = "idle"
    /\ upstream = "none"
    /\ raw = Absent
    /\ card = Absent
    /\ exc = "none"
    /\ response = NoResponse

\* generate_card_endpoint is entered with a request {query: string}.
ReceiveRequest ==
    /\ pc = "idle"
    /\ pc' = "get_client"
    /\ UNCHANGED <<upstream, raw, card, exc, response>>

\* _get_client: OPENAI_API_KEY is not set.
GetClientFails ==
    /\ pc = "get_client"
    /\ pc' = "except"
    /\ upstream' = "no_api_key"
    /\ exc' = "RuntimeError"
    /\ UNCHANGED <<raw, card, response>>

GetClientOk ==
    /\ pc = "get_client"
    /\ pc' = "create"
    /\ UNCHANGED <<upstream, raw, card, exc, response>>

\* client.chat.completions.create raises (network, API error).
CreateRaises ==
    /\ pc = "create"
    /\ pc' = "except"
    /\ upstream' = "api_error"
    /\ exc' = "APIError"
    /\ UNCHANGED <<raw, card, response>>

\* if not content: raise RuntimeError
EmptyContent ==
    /\ pc = "create"
    /\ pc' = "except"
    /\ upstream' = "empty"
    /\ exc' = "RuntimeError"
    /\ UNCHANGED <<raw, card, response>>

\* json.loads(content) raises on text that is not JSON.
NonJsonContent ==
    /\ pc = "create"
    /\ pc' = "except"
    /\ upstream' = "non_json"
    /\ exc' = "JSONDecodeError"
    /\ UNCHANGED <<raw, card, response>>

\* raw = _call_model(query)
ModelReturns ==
    /\ pc = "create"
    /\ \E d \in RawDocs : raw' = d
    /\ pc' = "validate"
    /\ upstream' = "json"
    /\ UNCHANGED <<card, exc, response>>

\* Faulty variant: the root is validated as any node.
model_validate_asNode(x) == ValidateNode(x)

\* The value CardNode.model_validate(raw) gives generate_card.
model_validate(x) == ValidateCardNode(x)

\* card = CardNode.model_validate(raw); return card
ValidateSucceeds ==
    /\ pc = "validate"
    /\ model_validate(raw).ok
    /\ card' = model_validate(raw).v
    /\ pc' = "return"
    /\ UNCHANGED <<upstream, raw, exc, response>>

\* Faulty variant: the failure is swallowed and the raw value returned.
ValidateFails_passThrough ==
    /\ pc = "validate"
    /\ ~model_validate(raw).ok
    /\ card' = raw
    /\ pc' = "return"
    /\ UNCHANGED <<upstream, raw, exc, response>>

\* except ValidationError: raise ValueError(...)
ValidateFails ==
    /\ pc = "validate"
    /\ ~model_validate(raw).ok
    /\ exc' = "ValueError"
    /\ pc' = "except"
    /\ UNCHANGED <<upstream, raw, card, response>>

\* except Exception: raise HTTPException(status_code=500, detail=str(exc))
RespondError ==
    /\ pc = "except"
    /\ response' = [status |-> 500, body |-> Absent]
    /\ pc' = "done"
    /\ UNCHANGED <<upstream, raw, card, exc>>

\* return card, written as JSON under response_model=CardNode
RespondCard ==
    /\ pc = "return"
    /\ response' = [status |-> 200, body |-> Serialize(card)]
    /\ pc' = "done"
    /\ UNCHANGED <<upstream, raw, card, exc>>

\* return card, where the JSON encoder refuses a float it cannot write: the
\* server answers 500 without a body.
RespondEncodingError ==
    /\ pc = "return"
    /\ HasNonFinite(card)
    /\ response' = [status |-> 500, body |-> Absent]
    /\ pc' = "done"
    /\ UNCHANGED <<upstream, raw, card, exc>>

\* The next request starts from a fresh call.
NextRequest ==
    /\ pc = "done"
    /\ pc' = "idle"
    /\ upstream' = "none"
    /\ raw' = Absent
    /\ card' = Absent
    /\ exc' = "none"
    /\ response' = NoResponse

Next ==
    \/ ReceiveRequest
    \/ GetClientFails
    \/ GetClientOk
    \/ CreateRaises
    \/ EmptyContent
    \/ NonJsonContent
    \/ ModelReturns
    \/ ValidateSucceeds
    \/ ValidateFails
    \/ RespondError
    \/ RespondCard
    \/ RespondEncodingError
    \/ NextRequest

Spec == Init /\ [][Next]_vars

-----------------------------------------------------------------------------
(* Reading a raw document: its node positions, panels and chart series.    *)

KindOf(x) ==
    IF IsDict(x) /\ Has(x, "kind") /\ x.o.kind.t = "str" THEN x.o.kind.s ELSE ""

ListField(x, k) ==
    IF IsDict(x) /\ Has(x, k) /\ x.o[k].t = "list" THEN x.o[k].a ELSE <<>>

Elems(seq) == {seq[i] : i \in 1..Len(seq)}

\* The panels of a layout node.
PanelsOf(x) ==
    IF KindOf(x) = "resizableLayout" THEN Elems(ListField(x, "panels")) ELSE {}

\* The raw values at the node positions directly below x.
ChildPositions(x) ==
    IF KindOf(x) = "card" THEN Elems(ListField(x, "children"))
    ELSE UNION {Elems(ListField(p, "children")) : p \in PanelsOf(x)}

\* Every node position of the document x, the root included.
RECURSIVE NodesIn(_)

NodesIn(x) == {x} \cup UNION {NodesIn(c) : c \in ChildPositions(x)}

PanelsIn(x) == UNION {PanelsOf(n) : n \in NodesIn(x)}

SeriesIn(x) ==
    UNION {Elems(ListField(n, "series")) : n \in {m \in NodesIn(x) : KindOf(m) = "chart"}}

\* Where the request stands.
Accepted == pc = "return" \/ (pc = "done" /\ card # Absent)
Rejected == exc = "ValueError"
Validated == Accepted \/ Rejected

-----------------------------------------------------------------------------
(* Properties *)

\* A table node with a row whose length is not the number of columns.
RaggedTable(n) ==
    /\ KindOf(n) = "table"
    /\ \E r \in Elems(ListField(n, "rows")) :
           r.t = "list" /\ Len(r.a) # Len(ListField(n, "columns"))

\* C1: every document that validation accepts has, in every table at any
\* depth, only rows with exactly len(columns) entries.
C1_RaggedTableRejected ==
    Accepted => \A n \in NodesIn(raw) : ~RaggedTable(n)

\* A string where a number is declared: Panel.defaultSize, Panel.minSize,
\* an element of ChartSeries.values.
StringAsNumber(x) ==
    \/ \E p \in PanelsIn(x) :
           /\ IsDict(p)
           /\ \E k \in {"defaultSize", "minSize"} : Has(p, k) /\ p.o[k].t = "str"
    \/ \E s \in SeriesIn(x) : \E v \in Elems(ListField(s, "values")) : v.t = "str"

\* C2: a document carrying a string in defaultSize, minSize or a chart value
\* fails validation; no string is coerced to a number.
C2_NumericStringRejected ==
    Accepted => ~StringAsNumber(raw)

\* A chart node whose fields are each of the declared type.
IsNumber(v) == v.t \in {"int", "float"}

WellTypedSeries(s) ==
    /\ IsDict(s)
    /\ DOMAIN s.o = {"name", "values"}
    /\ s.o.name.t = "str"
    /\ s.o.values.t = "list"
    /\ \A v \in Elems(s.o.values.a) : IsNumber(v)

WellTypedChart(c) ==
    /\ KindOf(c) = "chart"
    /\ DOMAIN c.o = {"kind", "chartType", "categories", "series"}
    /\ c.o.chartType \in {JS("bar"), JS("line")}
    /\ c.o.categories.t = "list"
    /\ \A v \in Elems(c.o.categories.a) : v.t = "str"
    /\ c.o.series.t = "list"
    /\ \A v \in Elems(c.o.series.a) : WellTypedSeries(v)

ChartConsistent(c) ==
    /\ Len(c.o.categories.a) > 0 \/ Len(c.o.series.a) = 0
    /\ \A v \in Elems(c.o.series.a) : Len(v.o.values.a) = Len(c.o.categories.a)

\* C3: a well-typed chart node is accepted if and only if (a) categories is
\* non-empty or series is empty and (b) every series has len(categories)
\* values; a document holding a well-typed chart that breaks (a) or (b) is
\* rejected.
C3_ChartAcceptedIff ==
    \A c \in NodesIn(raw) :
        WellTypedChart(c) =>
            /\ ValidateNode(c).ok <=> ChartConsistent(c)
            /\ ValidateNonLayoutNode(c).ok <=> ChartConsistent(c)
            /\ Accepted => ChartConsistent(c)

C3_Witness ==
    /\ Rejected
    /\ raw = Card(<<Chart("bar", 0, <<0>>, JInt(10))>>)

\* A layout node directly among a panel's children.
LayoutInPanel(x) ==
    \E p \in PanelsIn(x) :
        \E c \in Elems(ListField(p, "children")) : KindOf(c) = "resizableLayout"

\* C4: a document in which a direct element of some panel's children has kind
\* "resizableLayout" fails validation, whatever else it holds.
C4_LayoutInPanelRejected ==
    Accepted => ~LayoutInPanel(raw)

C4_Witness ==
    /\ Rejected
    /\ \E c \in NodesIn(raw) :
           /\ KindOf(c) = "resizableLayout"
           /\ ValidateNode(c).ok
           /\ raw = Card(<<Wrap(<<"panel">>, c)>>)

\* C5: a top-level value of kind title, subtitle, text, bullets, table, chart
\* or resizableLayout is rejected, also when it is valid as a node.
C5_RootIsCard ==
    /\ Accepted => KindOf(raw) = "card"
    /\ Validated /\ KindOf(raw) \in NodeKinds \ {"card"} => Rejected

C5_Witness ==
    /\ Rejected
    /\ KindOf(raw) = "text"
    /\ ValidateNode(raw).ok

\* The declared fields of each kind of object.
Declared(kind) ==
    CASE kind = "card" -> {"kind", "children"}
      [] kind \in TextKinds -> {"kind", "text"}
      [] kind = "bullets" -> {"kind", "items"}
      [] kind = "table" -> {"kind", "columns", "rows"}
      [] kind = "chart" -> {"kind", "chartType", "categories", "series"}
      [] kind = "resizableLayout" -> {"kind", "direction", "panels"}

UndeclaredField(x) ==
    \/ \E n \in NodesIn(x) :
           KindOf(n) \in NodeKinds /\ ~(DOMAIN n.o \subseteq Declared(KindOf(n)))
    \/ \E p \in PanelsIn(x) :
           IsDict(p) /\ ~(DOMAIN p.o \subseteq {"defaultSize", "minSize", "children"})
    \/ \E s \in SeriesIn(x) :
           IsDict(s) /\ ~(DOMAIN s.o \subseteq {"name", "values"})

\* C6: a document in which a node object, a panel or a chart series, at any
\* depth, carries a field outside the declared fields of its kind fails
\* validation.
C6_ClosedObjects ==
    Accepted => ~UndeclaredField(raw)

C6_Witness ==
    /\ Rejected
    /\ \E n \in NodesIn(raw) :
           /\ n # raw
           /\ n = Extra(TextNodeOf("title", "x"), "style", JS("bold"))

\* An object at a node position whose kind is missing or an unknown string.
BadKind(x) ==
    \E n \in NodesIn(x) :
        /\ IsDict(n)
        /\ \/ ~Has(n, "kind")
           \/ n.o.kind.t = "str" /\ n.o.kind.s \notin NodeKinds

\* C7: a document with, at any node position, an object whose kind is missing
\* or is a string outside the eight kinds fails validation.
C7_UnknownKindRejected ==
    Accepted => ~BadKind(raw)

C7_Witness ==
    /\ Rejected
    /\ \E n \in NodesIn(raw) :
           /\ n # raw
           /\ \/ n = JDict([kind |-> JS("paragraph")])
              \/ n = Without(TextNodeOf("text", "x"), "kind")

\* C8: the body of a successful response validates again, and gives the
\* document that was returned.
C8_RoundTrip ==
    pc = "done" /\ response.status = 200 =>
        model_validate(response.body) = Ok(card)

\* C9: a finished request has exactly one of two outcomes: the document that
\* passed CardNode validation, or a 500 without a document; a failed
\* generator call or a failed validation gives the second, and no response
\* exists before the request is finished.
C9_Outcome ==
    /\ pc # "done" => response = NoResponse
    /\ pc = "done" =>
           \/ /\ response.status = 200
              /\ upstream = "json"
              /\ exc = "none"
              /\ ValidateCardNode(raw).ok
              /\ card = ValidateCardNode(raw).v
              /\ response.body = Serialize(card)
           \/ /\ response.status = 500
              /\ response.body = Absent
    /\ pc = "done" /\ (upstream # "json" \/ ~ValidateCardNode(raw).ok) =>
           response.status = 500 /\ response.body = Absent

C9_Witness ==
    /\ pc = "done"
    /\ exc = "ValueError"
    /\ response.status = 500
    /\ KindOf(raw) = "card"
    /\ \E n \in NodesIn(raw) : n # raw /\ ValidateNode(n).ok

\* The cards that are direct children of a panel.
CardsInPanels(x) ==
    {c \in UNION {Elems(ListField(p, "children")) : p \in PanelsIn(x)} :
        KindOf(c) = "card"}

\* C10: a card that is a direct child of a panel is validated as any card
\* is, so it may hold a resizableLayout among its children: the exclusion
\* covers the panel's direct children only.
C10_ExclusionNotTransitive ==
    \A c \in CardsInPanels(raw) : ValidateNonLayoutNode(c) = ValidateCardNode(c)

C10_Witness ==
    /\ Accepted
    /\ \E c \in CardsInPanels(raw) :
           \E g \in ChildPositions(c) : KindOf(g) = "resizableLayout"

====
